---- MODULE Spec2Model ----
(***************************************************************************)
(* Model of the decision core of feed-ranking-system:                      *)
(*   - src/evaluation/ips_snips.py         (ips, snips)                    *)
(*   - src/recall/candidate_generation.py  (embedding_recall,              *)
(*                                          heuristic_recall,              *)
(*                                          generate_candidates)           *)
(*   - src/rerank/multi_objective_rerank.py (rerank)                       *)
(* Real numbers are exact rationals <<numerator, denominator>> with a      *)
(* positive denominator.  Python lists are sequences, dicts are functions  *)
(* on their key set.                                                       *)
(***************************************************************************)
EXTENDS Integers, Sequences, FiniteSets, TLC

VARIABLES
    \* ---- evaluation (ips_snips.py) ----
    df,            \* the logged dataset: sequence of rows [action, reward, propensity]
    policy,        \* the policy_fn handed to ips / snips
    epsilon,       \* the epsilon argument
    ipsResult,     \* value returned by ips(df, policy, epsilon), None before the call
    snipsResult,   \* value returned by snips(df, policy, epsilon), None before the call
    \* ---- recall (candidate_generation.py) ----
    index,         \* item_embeddings.index: item id of each row of the table
    values,        \* item_embeddings.values: embedding vector of each row
    user_embedding,
    embedding_k,
    heuristic_k,
    recent_item_ids,
    trending_item_ids,
    follow_item_ids,
    top_indices,   \* embedding_recall: row numbers picked by argsort/slice/reverse
    emb_candidates,
    heuristic_candidates,
    merged,
    recallPc,      \* position inside generate_candidates
    \* ---- rerank (multi_objective_rerank.py) ----
    candidate_ids,
    relevance_scores,
    embeddings,
    retention_scores,
    weights,
    top_k,
    iterOrder,     \* iteration order of the Python set built from candidate_ids
    selected,
    selected_embeddings,
    remaining,
    iter,          \* number of completed iterations of the outer for loop
    rerankPc,      \* "idle", "loop", "returned" or "KeyError"
    \* ---- serving (ranking_service.py) ----
    servicePc      \* position inside RankingService.rank

evalVars   == <<df, policy, epsilon, ipsResult, snipsResult>>
recallVars == <<index, values, user_embedding, embedding_k, heuristic_k,
                recent_item_ids, trending_item_ids, follow_item_ids,
                top_indices, emb_candidates, heuristic_candidates, merged,
                recallPc>>
rerankVars == <<candidate_ids, relevance_scores, embeddings, retention_scores,
                weights, top_k, iterOrder, selected, selected_embeddings,
                remaining, iter, rerankPc>>
serviceVars == <<servicePc>>
vars == <<evalVars, recallVars, rerankVars, serviceVars>>

None == "None"

-----------------------------------------------------------------------------
(* Generic helpers *)

Min(a, b) == IF a <= b THEN a ELSE b

Range(s) == {s[i] : i \in 1..Len(s)}

SeqsUpTo(S, n) == UNION {[1..k -> S] : k \in 0..n}

InjSeqsUpTo(S, n) ==
    {s \in SeqsUpTo(S, n) : \A i, j \in 1..Len(s) : s[i] = s[j] => i = j}

Perms(S) == {s \in [1..Cardinality(S) -> S] : Range(s) = S}

-----------------------------------------------------------------------------
(* Exact rational arithmetic standing for Python / numpy float arithmetic *)

Rat(n, d) == <<n, d>>
Zero == Rat(0, 1)
One == Rat(1, 1)

RAdd(x, y) ==
    IF x[2] = y[2] THEN Rat(x[1] + y[1], x[2])
    ELSE Rat(x[1] * y[2] + y[1] * x[2], x[2] * y[2])

RNeg(x) == Rat(-x[1], x[2])

RSub(x, y) == RAdd(x, RNeg(y))

RMul(x, y) == Rat(x[1] * y[1], x[2] * y[2])

\* x / y for y # 0
RDiv(x, y) ==
    IF y[1] > 0 THEN Rat(x[1] * y[2], x[2] * y[1])
    ELSE Rat(-(x[1] * y[2]), -(x[2] * y[1]))

RLt(x, y) ==
    IF x[2] = y[2] THEN x[1] < y[1] ELSE x[1] * y[2] < y[1] * x[2]

RLe(x, y) ==
    IF x[2] = y[2] THEN x[1] <= y[1] ELSE x[1] * y[2] <= y[1] * x[2]

REq(x, y) ==
    IF x[2] = y[2] THEN x[1] = y[1] ELSE x[1] * y[2] = y[1] * x[2]

RMax(x, y) == IF RLt(x, y) THEN y ELSE x

RECURSIVE RSum(_)
RSum(s) == IF s = <<>> THEN Zero ELSE RAdd(s[1], RSum(Tail(s)))

\* elementwise product of two numpy arrays of equal length
ArrayMul(a, b) == [i \in 1..Len(a) |-> RMul(a[i], b[i])]

\* np.mean of a non-empty array
NpMean(a) == RDiv(RSum(a), Rat(Len(a), 1))

-----------------------------------------------------------------------------
(* Evaluation: src/evaluation/ips_snips.py *)

MaxEvents == 3

Actions == {0, 1}
Rewards == {0, 1}
Propensities == {Rat(1, 10), Rat(1, 5), Rat(1, 2)}
Epsilons == {Rat(1, 100), Rat(1, 5)}
\* policy functions of run_pipeline.py (baseline_policy, new_policy) and the
\* constant policy for the other action
Policies == {"logged", "always0", "always1"}

Rows == [action : Actions, reward : Rewards, propensity : Propensities]

policy_fn(p, row) ==
    CASE p = "logged"  -> row.action
      [] p = "always0" -> 0
      [] p = "always1" -> 1

\* a variant of clip_propensity that does not clip
clip_propensity_unclipped(p, eps) == p

clip_propensity(p, eps) == RMax(p, eps)

\* the for loop of ips over rows 1..n: the lists weights and rewards
RECURSIVE IpsLoop(_, _, _, _)
IpsLoop(d, p, eps, n) ==
    IF n = 0 THEN [weights |-> <<>>, rewards |-> <<>>]
    ELSE LET acc == IpsLoop(d, p, eps, n - 1)
             row == d[n]
             logged_action == row.action
             reward == Rat(row.reward, 1)
             propensity == clip_propensity(row.propensity, eps)
         IN  IF policy_fn(p, row) = logged_action
             THEN [weights |-> Append(acc.weights, RDiv(One, propensity)),
                   rewards |-> Append(acc.rewards, reward)]
             ELSE acc

ips(d, p, eps) ==
    LET acc == IpsLoop(d, p, eps, Len(d))
    IN  IF acc.rewards = <<>> THEN Zero
        ELSE NpMean(ArrayMul(acc.weights, acc.rewards))

\* the for loop of snips over rows 1..n: the lists weighted_rewards and weights
RECURSIVE SnipsLoop(_, _, _, _)
SnipsLoop(d, p, eps, n) ==
    IF n = 0 THEN [weighted_rewards |-> <<>>, weights |-> <<>>]
    ELSE LET acc == SnipsLoop(d, p, eps, n - 1)
             row == d[n]
             logged_action == row.action
             reward == Rat(row.reward, 1)
             propensity == clip_propensity(row.propensity, eps)
         IN  IF policy_fn(p, row) = logged_action
             THEN LET w == RDiv(One, propensity)
                  IN  [weighted_rewards |-> Append(acc.weighted_rewards, RMul(w, reward)),
                       weights |-> Append(acc.weights, w)]
             ELSE acc

\* a variant of snips that normalises by the number of rows
snips_divides_by_rows(d, p, eps) ==
    LET acc == SnipsLoop(d, p, eps, Len(d))
    IN  IF acc.weights = <<>> THEN Zero
        ELSE RDiv(RSum(acc.weighted_rewards), Rat(Len(d), 1))

snips(d, p, eps) ==
    LET acc == SnipsLoop(d, p, eps, Len(d))
    IN  IF acc.weights = <<>> THEN Zero
        ELSE RDiv(RSum(acc.weighted_rewards), RSum(acc.weights))

EvalInputs ==
    /\ df \in SeqsUpTo(Rows, MaxEvents)
    /\ policy \in Policies
    /\ epsilon \in Epsilons
    /\ ipsResult = None
    /\ snipsResult = None

CallIps ==
    /\ ipsResult = None
    /\ ipsResult' = ips(df, policy, epsilon)
    /\ UNCHANGED <<df, policy, epsilon, snipsResult, recallVars, rerankVars, serviceVars>>

CallSnips ==
    /\ snipsResult = None
    /\ snipsResult' = snips(df, policy, epsilon)
    /\ UNCHANGED <<df, policy, epsilon, ipsResult, recallVars, rerankVars, serviceVars>>

-----------------------------------------------------------------------------
(* Recall: src/recall/candidate_generation.py *)

MaxRows == 3
MaxList == 1

ItemIds == {1, 2, 3}
\* ids a row of the embeddings table can carry
TableIds == 1..MaxRows
EmbVecs == {<<1, 0>>, <<0, 1>>, <<1, 1>>}
UserVecs == {<<1, 0>>, <<1, 2>>}

\* a @ b for two vectors of the same length
RECURSIVE Dot(_, _)
Dot(a, b) == IF a = <<>> THEN 0 ELSE a[1] * b[1] + Dot(Tail(a), Tail(b))

\* item_embeddings.values @ user_embedding: one score per row
MatVec(m, u) == [i \in 1..Len(m) |-> Dot(m[i], u)]

\* np.argsort(scores) with the default kind (quicksort, not stable): any
\* permutation of the row numbers that puts the scores in ascending order
Argsorts(sc) ==
    {p \in Perms(1..Len(sc)) : \A i \in 1..(Len(sc) - 1) : sc[p[i]] <= sc[p[i + 1]]}

\* Python s[start:] and s[:stop], negative arguments counting from the end
PySliceFrom(s, start) ==
    LET n == Len(s)
        lo == IF start < 0 THEN (IF n + start < 0 THEN 0 ELSE n + start)
              ELSE Min(start, n)
    IN  [i \in 1..(n - lo) |-> s[lo + i]]

PySliceTo(s, stop) ==
    LET n == Len(s)
        hi == IF stop < 0 THEN (IF n + stop < 0 THEN 0 ELSE n + stop)
              ELSE Min(stop, n)
    IN  [i \in 1..hi |-> s[i]]

\* s[::-1]
Reverse(s) == [i \in 1..Len(s) |-> s[Len(s) + 1 - i]]

\* a variant of TopIndices that keeps the ascending order of argsort
TopIndicesAscending(order, k) == PySliceFrom(order, -k)

\* np.argsort(scores)[-top_k:][::-1] for one outcome `order` of the argsort
TopIndices(order, k) == Reverse(PySliceFrom(order, -k))

\* item_embeddings.index[top_indices].tolist()
IndexTake(idx, rows) == [i \in 1..Len(rows) |-> idx[rows[i]]]

\* the "preserve order, remove duplicates" loop over the first n elements
RECURSIVE DedupLoop(_, _, _, _)
DedupLoop(src, n, seen0, out0) ==
    IF n = 0 THEN [seen |-> seen0, out |-> out0]
    ELSE LET acc == DedupLoop(src, n - 1, seen0, out0)
             item_id == src[n]
         IN  IF item_id \notin acc.seen
             THEN [seen |-> acc.seen \cup {item_id}, out |-> Append(acc.out, item_id)]
             ELSE acc

\* a variant of heuristic_recall that truncates before removing duplicates
heuristic_recall_truncates_first(recent, trending, follow, max_items) ==
    LET candidates == PySliceTo(recent \o trending \o follow, max_items)
    IN  DedupLoop(candidates, Len(candidates), {}, <<>>).out

heuristic_recall(recent, trending, follow, max_items) ==
    LET candidates == recent \o trending \o follow
        deduped == DedupLoop(candidates, Len(candidates), {}, <<>>).out
    IN  PySliceTo(deduped, max_items)

\* a variant of MergeSources that concatenates without the seen-set
MergeSourcesNoSeen(emb, heur) == emb \o heur

\* the "merge + deduplicate" loops of generate_candidates
MergeSources(emb, heur) ==
    LET first == DedupLoop(emb, Len(emb), {}, <<>>)
    IN  DedupLoop(heur, Len(heur), first.seen, first.out).out

RecallStart ==
    /\ top_indices = <<>>
    /\ emb_candidates = <<>>
    /\ heuristic_candidates = <<>>
    /\ merged = <<>>
    /\ recallPc = "embedding"

\* inputs for the embedding sub-source: any table of up to MaxRows rows
EmbInputs ==
    /\ index \in InjSeqsUpTo(TableIds, MaxRows)
    /\ values \in [1..Len(index) -> EmbVecs]
    /\ user_embedding \in UserVecs
    /\ embedding_k \in 0..(MaxRows + 1)
    /\ heuristic_k = 0
    /\ recent_item_ids = <<>>
    /\ trending_item_ids = <<>>
    /\ follow_item_ids = <<>>
    /\ RecallStart

\* inputs for the merge: a few tables, any three lists of up to MaxList ids
MergeTables ==
    { [index |-> <<>>, values |-> <<>>],
      [index |-> <<2>>, values |-> <<(<<1, 0>>)>>],
      [index |-> <<3, 1>>, values |-> << <<1, 0>>, <<0, 1>> >>],
      [index |-> <<3, 1>>, values |-> << <<1, 0>>, <<1, 1>> >>] }

MergeInputs ==
    /\ \E t \in MergeTables : index = t.index /\ values = t.values
    /\ user_embedding = <<1, 2>>
    /\ embedding_k \in 0..2
    /\ heuristic_k \in 0..(MaxList + 1)
    /\ recent_item_ids \in SeqsUpTo(ItemIds, MaxList)
    /\ trending_item_ids \in SeqsUpTo(ItemIds, MaxList)
    /\ follow_item_ids \in SeqsUpTo(ItemIds, MaxList)
    /\ RecallStart

\* generate_candidates, lines 83-87: the call of embedding_recall
EmbeddingRecall ==
    /\ recallPc = "embedding"
    /\ \E order \in Argsorts(MatVec(values, user_embedding)) :
          /\ top_indices' = TopIndices(order, embedding_k)
          /\ emb_candidates' = IndexTake(index, TopIndices(order, embedding_k))
    /\ recallPc' = "heuristic"
    /\ UNCHANGED <<index, values, user_embedding, embedding_k, heuristic_k,
                   recent_item_ids, trending_item_ids, follow_item_ids,
                   heuristic_candidates, merged, evalVars, rerankVars,
                   serviceVars>>

\* generate_candidates, lines 89-94: the call of heuristic_recall
HeuristicRecall ==
    /\ recallPc = "heuristic"
    /\ heuristic_candidates' =
          heuristic_recall(recent_item_ids, trending_item_ids, follow_item_ids,
                           heuristic_k)
    /\ recallPc' = "merge"
    /\ UNCHANGED <<index, values, user_embedding, embedding_k, heuristic_k,
                   recent_item_ids, trending_item_ids, follow_item_ids,
                   top_indices, emb_candidates, merged, evalVars, rerankVars,
                   serviceVars>>

\* generate_candidates, lines 96-106: merge, deduplicate, return
MergeCandidates ==
    /\ recallPc = "merge"
    /\ merged' = MergeSources(emb_candidates, heuristic_candidates)
    /\ recallPc' = "returned"
    /\ UNCHANGED <<index, values, user_embedding, embedding_k, heuristic_k,
                   recent_item_ids, trending_item_ids, follow_item_ids,
                   top_indices, emb_candidates, heuristic_candidates,
                   evalVars, rerankVars, serviceVars>>

-----------------------------------------------------------------------------
(* Re-ranking: src/rerank/multi_objective_rerank.py *)

MaxCand == 3

\* 1 / 1e-8, the denominator floor of cosine_similarity
FloorInverse == 100000000

\* the embedding each item has when the caller supplies one
ItemVec(i) == IF i = 3 THEN <<0, 1>> ELSE <<1, 0>>

EmbeddingDicts ==
    {[i \in D |-> ItemVec(i)] : D \in {ItemIds} \cup {ItemIds \ {i} : i \in ItemIds}}
RelevanceDicts == UNION {[D -> {One}] : D \in SUBSET ItemIds}
RetentionDicts == {[i \in {} |-> Zero], [i \in {1, 3} |-> Rat(i, 1)]}
WeightDicts ==
    { [relevance |-> One, diversity |-> One, retention |-> Zero],
      [relevance |-> One, diversity |-> Rat(2, 1), retention |-> One] }

\* np.linalg.norm for vectors whose norm is an integer
Norm(a) == CHOOSE n \in 0..Dot(a, a) : n * n = Dot(a, a)

cosine_similarity(a, b) ==
    Rat(Dot(a, b) * FloorInverse, Norm(a) * Norm(b) * FloorInverse + 1)

\* max of a non-empty list of numbers
RECURSIVE ListMax(_)
ListMax(s) == IF Len(s) = 1 THEN s[1] ELSE RMax(s[1], ListMax(Tail(s)))

diversity_penalty(candidate_embedding, sel_embs) ==
    IF sel_embs = <<>> THEN Zero
    ELSE ListMax([j \in 1..Len(sel_embs) |->
                    cosine_similarity(candidate_embedding, sel_embs[j])])

\* a variant of compute_final_score that rewards similarity
compute_final_score_adds_diversity(relevance, diversity, retention, w) ==
    RAdd(RAdd(RMul(w.relevance, relevance), RMul(w.diversity, diversity)),
         RMul(w.retention, retention))

compute_final_score(relevance, diversity, retention, w) ==
    RAdd(RSub(RMul(w.relevance, relevance), RMul(w.diversity, diversity)),
         RMul(w.retention, retention))

\* a variant of EmbeddingLookup that defaults a missing embedding to zeros
EmbeddingLookupDefaulted(embs, item_id) ==
    IF item_id \in DOMAIN embs
    THEN [raised |-> FALSE, value |-> embs[item_id]]
    ELSE [raised |-> FALSE, value |-> <<0, 0>>]

\* embeddings[item_id]: the value, or KeyError when the dict has no such key
EmbeddingLookup(embs, item_id) ==
    IF item_id \in DOMAIN embs
    THEN [raised |-> FALSE, value |-> embs[item_id]]
    ELSE [raised |-> TRUE, value |-> None]

\* dict.get(key, default)
DictGet(d, key, default) == IF key \in DOMAIN d THEN d[key] ELSE default

\* the score the inner loop computes for item_id (lines 89-102)
ItemScore(item_id, rel_scores, embs, ret_scores, w, sel_embs) ==
    LET rel == DictGet(rel_scores, item_id, Zero)
        ret == DictGet(ret_scores, item_id, Zero)
        div == diversity_penalty(EmbeddingLookup(embs, item_id).value, sel_embs)
    IN  compute_final_score(rel, div, ret, w)

\* the order in which `for item_id in remaining` visits the set
ScanOrder(order, rem) == SelectSeq(order, LAMBDA x : x \in rem)

\* a variant of BetterScore that also replaces the best on an equal score
BetterScoreOrEqual(score, best_score) ==
    best_score = None \/ RLe(best_score, score)

\* score > best_score, where best_score starts as -np.inf (None here)
BetterScore(score, best_score) ==
    best_score = None \/ RLt(best_score, score)

\* the inner loop over the first n items of the scan: best_id and best_score
RECURSIVE ScanLoop(_, _, _, _, _, _, _)
ScanLoop(scan, n, rel_scores, embs, ret_scores, w, sel_embs) ==
    IF n = 0 THEN [best_id |-> None, best_score |-> None]
    ELSE LET acc == ScanLoop(scan, n - 1, rel_scores, embs, ret_scores, w, sel_embs)
             item_id == scan[n]
             score == ItemScore(item_id, rel_scores, embs, ret_scores, w, sel_embs)
         IN  IF BetterScore(score, acc.best_score)
             THEN [best_id |-> item_id, best_score |-> score]
             ELSE acc

\* min(top_k, len(candidate_ids)), the number of iterations of the outer loop
LoopCount(k, cands) == Min(k, Len(cands))

\* the inner loop raises KeyError at embeddings[item_id] (line 93)
MissingEmbedding(rem, embs) == \E x \in rem : EmbeddingLookup(embs, x).raised

RerankInputs ==
    /\ candidate_ids \in SeqsUpTo(ItemIds, MaxCand)
    /\ relevance_scores \in RelevanceDicts
    /\ embeddings \in EmbeddingDicts
    /\ retention_scores \in RetentionDicts
    /\ weights \in WeightDicts
    /\ top_k \in 0..MaxCand
    /\ iterOrder \in Perms(Range(candidate_ids))
    /\ selected = <<>>
    /\ selected_embeddings = <<>>
    /\ remaining = Range(candidate_ids)
    /\ iter = 0
    /\ rerankPc = "loop"

\* one iteration of the outer loop that runs to its end (lines 84-110)
RerankSelect ==
    /\ rerankPc = "loop"
    /\ iter < LoopCount(top_k, candidate_ids)
    /\ ~MissingEmbedding(remaining, embeddings)
    /\ remaining # {}
    /\ LET scan == ScanOrder(iterOrder, remaining)
           best == ScanLoop(scan, Len(scan), relevance_scores, embeddings,
                            retention_scores, weights, selected_embeddings)
       IN  /\ selected' = Append(selected, best.best_id)
           /\ selected_embeddings' =
                 Append(selected_embeddings,
                        EmbeddingLookup(embeddings, best.best_id).value)
           /\ remaining' = remaining \ {best.best_id}
    /\ iter' = iter + 1
    /\ UNCHANGED <<candidate_ids, relevance_scores, embeddings, retention_scores,
                   weights, top_k, iterOrder, rerankPc, evalVars, recallVars,
                   serviceVars>>

\* an iteration that ends in KeyError: embeddings[item_id] for an item without
\* an embedding (line 93), or embeddings[None] after a scan of an empty set
\* left best_id at None (lines 108-109)
RerankRaise ==
    /\ rerankPc = "loop"
    /\ iter < LoopCount(top_k, candidate_ids)
    /\ \/ /\ MissingEmbedding(remaining, embeddings)
          /\ selected' = selected
       \/ /\ ~MissingEmbedding(remaining, embeddings)
          /\ remaining = {}
          /\ selected' = Append(selected, None)
    /\ rerankPc' = "KeyError"
    /\ UNCHANGED <<candidate_ids, relevance_scores, embeddings, retention_scores,
                   weights, top_k, iterOrder, selected_embeddings, remaining,
                   iter, evalVars, recallVars, serviceVars>>

\* return selected (line 112)
RerankReturn ==
    /\ rerankPc = "loop"
    /\ iter >= LoopCount(top_k, candidate_ids)
    /\ rerankPc' = "returned"
    /\ UNCHANGED <<candidate_ids, relevance_scores, embeddings, retention_scores,
                   weights, top_k, iterOrder, selected, selected_embeddings,
                   remaining, iter, evalVars, recallVars, serviceVars>>

-----------------------------------------------------------------------------
(* Serving: src/serving/ranking_service.py, RankingService.rank *)

\* the defaults of generate_candidates, which rank does not override
DefaultEmbeddingK == 200
DefaultHeuristicK == 100

\* values the calibrated score of a candidate can take (the scorer and the
\* calibrator are opaque)
CalibratedScores == {Zero, One}

\* item_embeddings.loc[i].values for an id of the (unique) index
LocValues(idx, vals, i) == vals[CHOOSE r \in 1..Len(idx) : idx[r] = i]

\* item_embeddings.loc[i] raises KeyError for a label that is not in the index
LocRaises(idx, cands) == \E i \in Range(cands) : i \notin Range(idx)

\* the arguments of rank: a table whose rows carry the embedding of their
\* item, a user_context with three lists, retention_scores, weights, top_k
ServiceInputs ==
    /\ index \in InjSeqsUpTo(ItemIds, Cardinality(ItemIds))
    /\ values = [r \in 1..Len(index) |-> ItemVec(index[r])]
    /\ user_embedding = <<1, 2>>
    /\ embedding_k = DefaultEmbeddingK
    /\ heuristic_k = DefaultHeuristicK
    /\ recent_item_ids \in SeqsUpTo(ItemIds, MaxList)
    /\ trending_item_ids \in SeqsUpTo(ItemIds, MaxList)
    /\ follow_item_ids \in SeqsUpTo(ItemIds, MaxList)
    /\ RecallStart
    /\ retention_scores = [i \in {1, 3} |-> Rat(i, 1)]
    /\ weights \in WeightDicts
    /\ top_k \in 0..2
    /\ candidate_ids = <<>>
    /\ relevance_scores = [i \in {} |-> Zero]
    /\ embeddings = [i \in {} |-> <<>>]
    /\ iterOrder = <<>>
    /\ selected = <<>>
    /\ selected_embeddings = <<>>
    /\ remaining = {}
    /\ iter = 0
    /\ rerankPc = "idle"
    /\ servicePc = "recall"

\* rank, lines 87-93: feature join, model.predict, calibrator.predict and
\* relevance_scores = dict(zip(candidates, calibrated))
ServiceScore ==
    /\ servicePc = "recall"
    /\ recallPc = "returned"
    /\ relevance_scores' \in [Range(merged) -> CalibratedScores]
    /\ servicePc' = "scored"
    /\ UNCHANGED <<candidate_ids, embeddings, retention_scores, weights, top_k,
                   iterOrder, selected, selected_embeddings, remaining, iter,
                   rerankPc, evalVars, recallVars>>

\* rank, lines 96-103: the embeddings dict is built for every candidate and
\* rerank is entered (its lines 79-82)
ServiceCallRerank ==
    /\ servicePc = "scored"
    /\ ~LocRaises(index, merged)
    /\ candidate_ids' = merged
    /\ embeddings' = [i \in Range(merged) |-> LocValues(index, values, i)]
    /\ iterOrder' \in Perms(Range(merged))
    /\ selected' = <<>>
    /\ selected_embeddings' = <<>>
    /\ remaining' = Range(merged)
    /\ iter' = 0
    /\ rerankPc' = "loop"
    /\ servicePc' = "rerank"
    /\ UNCHANGED <<relevance_scores, retention_scores, weights, top_k,
                   evalVars, recallVars>>

\* rank, line 99: item_embeddings.loc[i] raises KeyError for a candidate that
\* is not in the index of the table; rerank is never called
ServiceLookupRaise ==
    /\ servicePc = "scored"
    /\ LocRaises(index, merged)
    /\ servicePc' = "KeyError"
    /\ UNCHANGED <<evalVars, recallVars, rerankVars>>

\* rank, lines 105-109: rerank has returned, rank returns ranked
ServiceReturn ==
    /\ servicePc = "rerank"
    /\ rerankPc = "returned"
    /\ servicePc' = "returned"
    /\ UNCHANGED <<evalVars, recallVars, rerankVars>>

-----------------------------------------------------------------------------
(* Specifications *)

EvalIdle ==
    /\ df = <<>> /\ policy = "logged" /\ epsilon = Rat(1, 100)
    /\ ipsResult = None /\ snipsResult = None

RecallIdle ==
    /\ index = <<>> /\ values = <<>> /\ user_embedding = <<1, 0>>
    /\ embedding_k = 0 /\ heuristic_k = 0
    /\ recent_item_ids = <<>> /\ trending_item_ids = <<>> /\ follow_item_ids = <<>>
    /\ RecallStart

RerankIdle ==
    /\ candidate_ids = <<>>
    /\ relevance_scores = [i \in {} |-> Zero]
    /\ embeddings = [i \in {} |-> <<>>]
    /\ retention_scores = [i \in {} |-> Zero]
    /\ weights = [relevance |-> One, diversity |-> One, retention |-> Zero]
    /\ top_k = 0 /\ iterOrder = <<>>
    /\ selected = <<>> /\ selected_embeddings = <<>> /\ remaining = {}
    /\ iter = 0 /\ rerankPc = "loop"

ServiceIdle == servicePc = "idle"

InitEval == EvalInputs /\ RecallIdle /\ RerankIdle /\ ServiceIdle
NextEval == CallIps \/ CallSnips
SpecEval == InitEval /\ [][NextEval]_vars

NextRecall == EmbeddingRecall \/ HeuristicRecall \/ MergeCandidates

InitEmb == EvalIdle /\ EmbInputs /\ RerankIdle /\ ServiceIdle
SpecEmb == InitEmb /\ [][NextRecall]_vars

InitMerge == EvalIdle /\ MergeInputs /\ RerankIdle /\ ServiceIdle
SpecMerge == InitMerge /\ [][NextRecall]_vars

InitRerank == EvalIdle /\ RecallIdle /\ RerankInputs /\ ServiceIdle
NextRerank == RerankSelect \/ RerankRaise \/ RerankReturn
SpecRerank == InitRerank /\ [][NextRerank]_vars

\* rank: recall, scoring, the embeddings dict, rerank.  Inside rank every
\* candidate handed to rerank is distinct and has an embedding (see
\* ServiceRerankCannotRaise), so the raising iteration of rerank is left out.
InitService == EvalIdle /\ ServiceInputs
NextService ==
    \/ EmbeddingRecall \/ HeuristicRecall \/ MergeCandidates
    \/ ServiceScore \/ ServiceCallRerank \/ ServiceLookupRaise
    \/ RerankSelect \/ RerankReturn
    \/ ServiceReturn
SpecService == InitService /\ [][NextService]_vars

Init == InitEval \/ InitEmb \/ InitMerge \/ InitRerank \/ InitService
Next == NextEval \/ NextRecall \/ NextRerank \/ NextService
Spec == Init /\ [][Next]_vars

-----------------------------------------------------------------------------
(* Properties of ips and snips, checked under SpecEval *)

Matches(i) == policy_fn(policy, df[i]) = df[i].action

FullAgreement == \A i \in 1..Len(df) : Matches(i)

NoMatch == \A i \in 1..Len(df) : ~Matches(i)

Clipped(i) == RMax(df[i].propensity, epsilon)

\* sum over the matching events of reward / max(propensity, epsilon)
MatchedWeightedRewardSum ==
    RSum([i \in 1..Len(df) |->
            IF Matches(i) THEN RDiv(Rat(df[i].reward, 1), Clipped(i)) ELSE Zero])

RECURSIVE IntSum(_)
IntSum(s) == IF s = <<>> THEN 0 ELSE s[1] + IntSum(Tail(s))

\* the plain unweighted mean of the rewards of a non-empty dataset
PlainMeanReward ==
    Rat(IntSum([i \in 1..Len(df) |-> df[i].reward]), Len(df))

EqualClippedPropensities ==
    \A i, j \in 1..Len(df) : REq(Clipped(i), Clipped(j))

\* C1: for a non-empty dataset ips returns the sum over the matching events
\* of reward / max(propensity, epsilon), divided by N, the number of all
\* events of the dataset.
C1_IpsDividesByAllEvents ==
    (ipsResult # None /\ df # <<>>) =>
        REq(ipsResult, RDiv(MatchedWeightedRewardSum, Rat(Len(df), 1)))

\* C2: under full agreement snips returns the plain unweighted mean of the
\* rewards, whatever the propensities are.
C2_SnipsPlainMeanAnyPropensity ==
    (snipsResult # None /\ df # <<>> /\ FullAgreement) =>
        REq(snipsResult, PlainMeanReward)

\* C2 (amended): under full agreement, and when the clipped propensities
\* max(propensity, epsilon) of all events are equal, snips returns the plain
\* unweighted mean of the rewards.
C2_SnipsPlainMeanEqualClipped ==
    (snipsResult # None /\ df # <<>> /\ FullAgreement /\ EqualClippedPropensities) =>
        REq(snipsResult, PlainMeanReward)

\* full agreement, rewards that differ, raw propensities that differ and
\* are clipped to the same value
C2_Witness ==
    /\ snipsResult # None
    /\ Len(df) >= 2
    /\ FullAgreement
    /\ EqualClippedPropensities
    /\ \E i, j \in 1..Len(df) : df[i].reward # df[j].reward
    /\ \E i, j \in 1..Len(df) : df[i].propensity # df[j].propensity

\* C3: with rewards in {0,1} the value of snips lies in [0, 1], and it is
\* 0.0 when no event matches the policy (the empty dataset included).
C3_SnipsBounded ==
    snipsResult # None =>
        /\ RLe(Zero, snipsResult)
        /\ RLe(snipsResult, One)
        /\ NoMatch => snipsResult = Zero

\* snips of matching events with unequal weights, strictly between 0 and 1
C3_Witness ==
    /\ snipsResult # None
    /\ RLt(Zero, snipsResult)
    /\ RLt(snipsResult, One)
    /\ \E i, j \in 1..Len(df) :
          Matches(i) /\ Matches(j) /\ ~REq(Clipped(i), Clipped(j))
    /\ \E i \in 1..Len(df) : ~Matches(i)

-----------------------------------------------------------------------------
(* Properties of the recall stage, checked under SpecEmb and SpecMerge *)

NoDuplicates(s) == \A i, j \in 1..Len(s) : s[i] = s[j] => i = j

Scores == MatVec(values, user_embedding)

EmbeddingDone == recallPc # "embedding"

\* the subsequence of s that keeps the first occurrence of every element
FirstOccurrences(s) ==
    LET keep == {i \in 1..Len(s) : \A j \in 1..(i - 1) : s[j] # s[i]}
        nth(k) == CHOOSE i \in keep : Cardinality({j \in keep : j <= i}) = k
    IN  [k \in 1..Cardinality(keep) |-> s[nth(k)]]

HeuristicLists == recent_item_ids \o trending_item_ids \o follow_item_ids

\* H of C7: the first heuristic_k elements of the dedup of the three lists
FirstOfDedup ==
    SubSeq(FirstOccurrences(HeuristicLists), 1,
           Min(heuristic_k, Len(FirstOccurrences(HeuristicLists))))

\* C4: the list returned by generate_candidates has no ID twice, and every
\* ID in it occurs in one of the three heuristic lists or in the output of
\* the embedding sub-source.
C4_RecallDedup ==
    recallPc = "returned" =>
        /\ NoDuplicates(merged)
        /\ Range(merged) \subseteq
              Range(HeuristicLists) \cup Range(emb_candidates)

\* a merge in which an ID of the heuristic source was already in the
\* embedding source's output
C4_Witness ==
    /\ recallPc = "returned"
    /\ Len(merged) >= 2
    /\ Range(heuristic_candidates) \cap Range(emb_candidates) # {}
    /\ Len(merged) < Len(emb_candidates) + Len(heuristic_candidates)

\* C5: embedding_recall returns exactly min(top_k, n) items, and every
\* returned item's score is >= the score of every item not returned.
C5_EmbeddingRecallTopK ==
    EmbeddingDone =>
        /\ Len(emb_candidates) = Min(embedding_k, Len(index))
        /\ \A r \in Range(top_indices) :
              \A q \in (1..Len(index)) \ Range(top_indices) :
                 Scores[r] >= Scores[q]

\* C6: embedding_recall returns items in descending order of score, and of
\* two items of equal score the one with the smaller position in the table
\* comes first and is the one kept at the top_k cut-off.
C6_StableDescending ==
    EmbeddingDone =>
        /\ \A i, j \in 1..Len(top_indices) :
              i < j =>
                 \/ Scores[top_indices[i]] > Scores[top_indices[j]]
                 \/ /\ Scores[top_indices[i]] = Scores[top_indices[j]]
                    /\ top_indices[i] < top_indices[j]
        /\ \A r \in Range(top_indices) :
              \A q \in (1..Len(index)) \ Range(top_indices) :
                 Scores[q] = Scores[r] => r < q

\* C6 (amended): embedding_recall returns the IDs of distinct rows of the
\* table in descending (non-increasing) order of score; nothing is promised
\* about the order of rows of equal score.
C6_Descending ==
    EmbeddingDone =>
        /\ emb_candidates = [i \in 1..Len(top_indices) |-> index[top_indices[i]]]
        /\ NoDuplicates(top_indices)
        /\ \A i, j \in 1..Len(top_indices) :
              i < j => Scores[top_indices[i]] >= Scores[top_indices[j]]

\* a result with two rows of different score and two rows of equal score,
\* the row with the larger position first
C6_Witness ==
    /\ EmbeddingDone
    /\ \E i, j \in 1..Len(top_indices) :
          i < j /\ Scores[top_indices[i]] > Scores[top_indices[j]]
    /\ \E i, j \in 1..Len(top_indices) :
          /\ i < j
          /\ Scores[top_indices[i]] = Scores[top_indices[j]]
          /\ top_indices[i] > top_indices[j]

\* C7: with E the embedding sub-source's output and H the first heuristic_k
\* elements of the first-occurrence dedup of recent ++ trending ++ follow,
\* generate_candidates returns the first-occurrence dedup of E ++ H: all of
\* E in its order, then the elements of H not in E in H's order.
C7_MergeOrder ==
    recallPc = "returned" =>
        /\ merged = FirstOccurrences(emb_candidates \o FirstOfDedup)
        /\ merged = emb_candidates \o
                      SelectSeq(FirstOfDedup,
                                LAMBDA x : x \notin Range(emb_candidates))

\* the three lists repeat an ID, the dedup is longer than heuristic_k, and
\* an element of H is dropped because E has it
C7_Witness ==
    /\ recallPc = "returned"
    /\ Len(FirstOccurrences(HeuristicLists)) < Len(HeuristicLists)
    /\ 0 < heuristic_k
    /\ heuristic_k < Len(FirstOccurrences(HeuristicLists))
    /\ Range(FirstOfDedup) \cap Range(emb_candidates) # {}
    /\ emb_candidates # <<>>

-----------------------------------------------------------------------------
(* Properties of rerank, checked under SpecRerank *)

AllHaveEmbedding == \A x \in Range(candidate_ids) : x \in DOMAIN embeddings

SomeLacksEmbedding == \E x \in Range(candidate_ids) : x \notin DOMAIN embeddings

\* C8: when every candidate has an embedding, rerank completes and returns
\* a list of exactly min(top_k, len(candidate_ids)) items, whether or not
\* candidate_ids repeats an ID.
C8_RerankCardinality ==
    (AllHaveEmbedding /\ rerankPc # "loop") =>
        /\ rerankPc = "returned"
        /\ Len(selected) = Min(top_k, Len(candidate_ids))

\* the final_score of x as the current iteration computes it
CurrentScore(x) ==
    ItemScore(x, relevance_scores, embeddings, retention_scores, weights,
              selected_embeddings)

BestRemaining ==
    {x \in remaining : \A y \in remaining : RLe(CurrentScore(y), CurrentScore(x))}

\* position of the first occurrence of x in the sequence s
FirstPos(s, x) == CHOOSE i \in 1..Len(s) : s[i] = x /\ \A j \in 1..(i - 1) : s[j] # x

\* the step of one completed iteration, and the item it selects
SelectStep == iter' = iter + 1
Chosen == selected'[iter']

\* C9: in every iteration, of the remaining items that share the greatest
\* final_score the one that comes first in candidate_ids is selected.
C9_TieFirstInCandidateOrder ==
    [][SelectStep =>
          /\ Chosen \in BestRemaining
          /\ \A y \in BestRemaining :
                FirstPos(candidate_ids, Chosen) <= FirstPos(candidate_ids, y)]_vars

\* C9 (amended): in every iteration, of the remaining items that share the
\* greatest final_score the one that the iteration over the set `remaining`
\* visits first is selected; that order is the set's, not candidate_ids'.
C9_TieFirstInSetOrder ==
    [][SelectStep =>
          /\ Chosen \in BestRemaining
          /\ \A y \in BestRemaining :
                FirstPos(iterOrder, Chosen) <= FirstPos(iterOrder, y)]_vars

\* the first pick was tied with an item that comes earlier in candidate_ids
\* and later in the set's order
C9_Witness ==
    /\ iter >= 1
    /\ \E y \in Range(candidate_ids) :
          /\ y # selected[1]
          /\ REq(ItemScore(y, relevance_scores, embeddings, retention_scores,
                           weights, <<>>),
                 ItemScore(selected[1], relevance_scores, embeddings,
                           retention_scores, weights, <<>>))
          /\ FirstPos(candidate_ids, y) < FirstPos(candidate_ids, selected[1])
          /\ FirstPos(iterOrder, selected[1]) < FirstPos(iterOrder, y)

\* C10: whenever a candidate has no embedding, rerank ends with a lookup
\* error and returns no list, for every top_k >= 0.
C10_MissingEmbeddingRaises ==
    (SomeLacksEmbedding /\ rerankPc # "loop") => rerankPc = "KeyError"

\* C10 (amended): whenever a candidate has no embedding, rerank ends with a
\* lookup error in its first iteration for every top_k >= 1; for top_k = 0
\* it looks nothing up and returns the empty list.
C10_MissingEmbeddingRaisesUnlessZero ==
    (SomeLacksEmbedding /\ rerankPc # "loop") =>
        /\ selected = <<>>
        /\ iter = 0
        /\ rerankPc = (IF top_k >= 1 THEN "KeyError" ELSE "returned")

\* a lookup error with a candidate that has an embedding visited before the
\* one that has none
C10_Witness ==
    /\ rerankPc = "KeyError"
    /\ top_k >= 1
    /\ SomeLacksEmbedding
    /\ Len(iterOrder) >= 2
    /\ iterOrder[1] \in DOMAIN embeddings

\* the penalty of C11: 0 when nothing is selected yet, otherwise the greatest
\* cosine similarity between x and the items of prev
ClaimedPenalty(x, prev) ==
    IF prev = <<>> THEN Zero
    ELSE LET sims == {cosine_similarity(embeddings[x], embeddings[prev[j]]) :
                         j \in 1..Len(prev)}
         IN  CHOOSE m \in sims : \A t \in sims : RLe(t, m)

\* the value of C11 for x after the items of prev were selected
ClaimedScore(x, prev) ==
    LET rel == IF x \in DOMAIN relevance_scores THEN relevance_scores[x] ELSE Zero
        ret == IF x \in DOMAIN retention_scores THEN retention_scores[x] ELSE Zero
    IN  RAdd(RSub(RMul(weights.relevance, rel),
                  RMul(weights.diversity, ClaimedPenalty(x, prev))),
             RMul(weights.retention, ret))

\* C11: for duplicate-free candidate_ids the i-th output item is not among
\* the first i-1 output items and has the greatest value, over all candidates
\* not yet selected, of relevance weight * relevance - diversity weight *
\* penalty + retention weight * retention, a missing relevance or retention
\* entry counting as 0.0.
C11_GreedyMaximum ==
    NoDuplicates(candidate_ids) =>
        \A i \in 1..Len(selected) :
           LET prev == SubSeq(selected, 1, i - 1)
               open == Range(candidate_ids) \ Range(prev)
           IN  /\ selected[i] \in open
               /\ \A y \in open :
                     RLe(ClaimedScore(y, prev), ClaimedScore(selected[i], prev))

\* three distinct candidates, one without a relevance entry, and a second
\* pick that the penalty decides: the item passed over has the greater
\* value when the penalty is left out
C11_Witness ==
    /\ NoDuplicates(candidate_ids)
    /\ Len(candidate_ids) = 3
    /\ Len(selected) >= 2
    /\ \E x \in Range(candidate_ids) : x \notin DOMAIN relevance_scores
    /\ \E y \in Range(candidate_ids) \ {selected[1], selected[2]} :
          RLt(ClaimedScore(selected[2], <<>>), ClaimedScore(y, <<>>))

-----------------------------------------------------------------------------
(* Properties of RankingService.rank, checked under SpecService *)

\* inside rank no iteration of rerank can raise
ServiceRerankCannotRaise == ~ENABLED RerankRaise

\* C12: inside rank every candidate ID produced by the recall stage has an
\* embedding in item_embeddings, so for any user_context the sequence recall,
\* score, rerank reaches the rerank stage without a lookup failure for a
\* missing embedding.
C12_RecallCandidatesHaveEmbeddings ==
    /\ servicePc # "KeyError"
    /\ servicePc \in {"rerank", "returned"} =>
          Range(merged) \subseteq Range(index)

====
